---------------------------- MODULE Spec2Model ----------------------------
(***************************************************************************)
(* Model of rk_boot, a host-side loader for the Rockchip RK3366 boot ROM.  *)
(*                                                                         *)
(*   src/src/main.rs      claim_interface, connect, info, main             *)
(*   src/src/protocol.rs  usb_send, usb_read_n, info, usb_out, run         *)
(*                                                                         *)
(* One process: it claims the USB interface (retry loop), reads the        *)
(* endpoint addresses, and then runs one command: the chip-info dialogue   *)
(* over the bulk endpoints, or the chunked upload over vendor control      *)
(* transfers.  The device and the USB stack are the environment: every     *)
(* transfer completes with a status the environment chooses, and inbound   *)
(* transfers deliver bytes the environment chooses.                        *)
(*                                                                         *)
(* Bytes are integers 0..255, buffers are sequences of bytes.  Multi-byte  *)
(* fields of the packed wire structs are little-endian (the layout of the  *)
(* hosts the tool is built for).                                           *)
(***************************************************************************)
EXTENDS Integers, Sequences, FiniteSets, TLC

VARIABLES
    pc,          \* position of the process
    failure,     \* why the process panicked ("none" while it has not)
    clock,       \* claim_interface: microseconds elapsed since `now`
    attempts,    \* claim_interface: calls of d.claim_interface so far
    claimed,     \* the interface is held
    e_in_addr,   \* connect: address of the first IN endpoint
    e_out_addr,  \* connect: address of the first OUT endpoint
    bulkLog,     \* bulk transfers submitted, in submission order
    reported,    \* chip identifiers written to the log by info
    data,        \* run: the caller's payload
    region,      \* run: the caller's region
    ext_data,    \* run: the frame (payload, optional pad, CRC)
    c,           \* run: full chunks sent so far
    ctrlLog      \* control transfers submitted, in submission order

vars == <<pc, failure, clock, attempts, claimed, e_in_addr, e_out_addr,
          bulkLog, reported, data, region, ext_data, c, ctrlLog>>

claimVars == <<clock, attempts, claimed>>
infoVars  == <<bulkLog, reported>>
runVars   == <<data, region, ext_data, c, ctrlLog>>
addrVars  == <<e_in_addr, e_out_addr>>

(***************************************************************************)
(* Bounds of the model.                                                    *)
(***************************************************************************)
\* payload lengths lie around the multiples 0..MaxChunks of CHUNK_SIZE
MaxChunks == 2
\* ... at most Slack bytes below or above such a multiple
Slack == 3
\* the longest time (microseconds) one claim attempt and its sleep may
\* overrun the sleep period
MaxDelay == 600000

(***************************************************************************)
(* Program constants.                                                      *)
(***************************************************************************)
CLAIM_INTERFACE_TIMEOUT == 1000000
CLAIM_INTERFACE_PERIOD == 200
CHUNK_SIZE == 4096
REQUEST == 12
FLAG_DIR_IN == 128
CMD_CHIP_INFO == 27
RESPONSE_SIZE == 13
InfoTag == 322380610
InfoLength == 16
SramIndex == 1137
DramIndex == 1138
\* crc::CRC_16_IBM_3740: width 16, poly 0x1021, init 0xffff, no reflection,
\* xorout 0
CrcPoly == 4129
CrcInit == 65535

USB_REQUEST_SIGNATURE == <<85, 83, 66, 67>>
USB_RESPONSE_SIGNATURE == <<85, 83, 66, 83>>

Regions == {"Sram", "Dram"}
RegionIndex(r) == IF r = "Sram" THEN SramIndex ELSE DramIndex

Outcomes == {"ok", "error", "timeout"}

(***************************************************************************)
(* Bit and byte arithmetic.                                                *)
(***************************************************************************)
RECURSIVE Xor(_, _, _)
Xor(a, b, bits) ==
    IF bits = 0 THEN 0
    ELSE ((a + b) % 2) + 2 * Xor(a \div 2, b \div 2, bits - 1)

Xor8 == [a \in 0..255 |-> [b \in 0..255 |-> Xor(a, b, 8)]]

Zeros(n) == [i \in 1..n |-> 0]

Reverse(s) == [i \in 1..Len(s) |-> s[Len(s) + 1 - i]]

\* u32 as four bytes, least significant first
Le32(v) == <<v % 256, (v \div 256) % 256, (v \div 65536) % 256,
             (v \div 16777216) % 256>>
FromLe32(b) == b[1] + 256 * b[2] + 65536 * b[3] + 16777216 * b[4]
\* u16 as two bytes, least significant first
Le16(v) == <<v % 256, (v \div 256) % 256>>

(***************************************************************************)
(* CRC-16/IBM-3740 as the crc crate computes it: a 256-entry table, one    *)
(* lookup per byte, most significant bit first.                            *)
(***************************************************************************)
RECURSIVE CrcBits(_, _)
CrcBits(crc, n) ==
    IF n = 0 THEN crc
    ELSE CrcBits(IF crc >= 32768
                 THEN Xor((crc * 2) % 65536, CrcPoly, 16)
                 ELSE (crc * 2) % 65536,
                 n - 1)

CrcTable == [b \in 0..255 |-> CrcBits(b * 256, 8)]

\* crc = (crc << 8) ^ table[(crc >> 8) ^ byte]
CrcUpdate(crc, byte) ==
    LET t == CrcTable[Xor8[crc \div 256][byte]]
    IN  Xor8[crc % 256][t \div 256] * 256 + (t % 256)

\* the bytes s[lo..hi] folded into crc, left to right
RECURSIVE CrcRange(_, _, _, _)
CrcRange(crc, s, lo, hi) ==
    IF hi < lo THEN crc
    ELSE IF hi = lo THEN CrcUpdate(crc, s[lo])
    ELSE LET mid == (lo + hi) \div 2
             left == CrcRange(crc, s, lo, mid)
         IN  IF left >= 0 THEN CrcRange(left, s, mid + 1, hi) ELSE 0

\* variant: the register starts at zero (CRC-16/XMODEM)
ChecksumZeroInit(s) == CrcRange(0, s, 1, Len(s))

Checksum(s) == CrcRange(CrcInit, s, 1, Len(s))

\* variant: u16::to_le_bytes
ToLeBytes(v) == <<v % 256, v \div 256>>

\* u16::to_be_bytes
ToBeBytes(v) == <<v \div 256, v % 256>>

(***************************************************************************)
(* run: the frame.                                                         *)
(***************************************************************************)
\* variant: the pad rule looks at the length with the CRC counted in
PaddedAfterCrc(p) ==
    IF (Len(p) + 2) % CHUNK_SIZE = 4095 THEN p \o <<0>> ELSE p

\* variant: no padding at all
PaddedNever(p) == p

\* the payload, with one zero byte appended when its length is 4095 mod
\* CHUNK_SIZE
Padded(p) == IF Len(p) % CHUNK_SIZE = 4095 THEN p \o <<0>> ELSE p

Frame(p) == Padded(p) \o ToBeBytes(Checksum(Padded(p)))

full_chunks == Len(ext_data) \div CHUNK_SIZE

\* variant: the extra zero byte is left out, the (empty) rest is sent
TailDataNoTerminator(frame) ==
    SubSeq(frame, (Len(frame) \div CHUNK_SIZE) * CHUNK_SIZE + 1, Len(frame))

\* variant: the zero byte follows the remaining bytes of every frame
TailDataWithTerminator(frame) ==
    SubSeq(frame, (Len(frame) \div CHUNK_SIZE) * CHUNK_SIZE + 1, Len(frame))
        \o <<0>>

\* what run sends after the full chunks: the remaining bytes of the frame,
\* or one zero byte when the frame is a whole number of chunks
TailData(frame) ==
    LET o == (Len(frame) \div CHUNK_SIZE) * CHUNK_SIZE
        remaining == SubSeq(frame, o + 1, Len(frame))
    IN  IF Len(frame) % CHUNK_SIZE > 0 THEN remaining ELSE <<0>>

(***************************************************************************)
(* Inputs and environment choices.                                         *)
(***************************************************************************)
Digits == <<49, 50, 51, 52, 53, 54, 55, 56, 57>>
Fill(n, b) == [i \in 1..n |-> b]
Ramp(n) == [i \in 1..n |-> (i + n) % 251]

PayloadLens ==
    {n \in {k * CHUNK_SIZE + d : k \in 0..MaxChunks, d \in (0 - Slack)..Slack} :
        n >= 0}
Payloads == {Digits, Fill(10, 170)} \cup {Ramp(n) : n \in PayloadLens}

Delays == {0, MaxDelay}
Speeds == {"Low", "Full", "High", "Super", "SuperPlus", "Unknown"}
OutAddrs == {1, 2}
InAddrs == {129}

\* the 13 bytes of a Response on the wire
ResponseBytes(sig, tag, residue, status) ==
    sig \o Le32(tag) \o Le32(residue) \o <<status>>

ChipData == <<54, 54, 51, 51>> \o Fill(12, 255)
DataReplies == {ChipData, Fill(16, 255), <<54, 54>>, <<>>}

FullStatusReplies ==
    {ResponseBytes(sig, tag, 0, st) :
        sig \in {USB_RESPONSE_SIGNATURE, USB_REQUEST_SIGNATURE},
        tag \in {InfoTag, 1109604115},
        st \in {0, 1}}
StatusReplies ==
    FullStatusReplies
        \cup {SubSeq(ResponseBytes(USB_RESPONSE_SIGNATURE, InfoTag, 0, 0), 1, n) :
                n \in {0, 8}}

(***************************************************************************)
(* std::str::from_utf8(..).is_ok()                                         *)
(***************************************************************************)
IsCont(b) == b \in 128..191

RECURSIVE Utf8From(_, _)
Utf8From(s, i) ==
    IF i > Len(s) THEN TRUE
    ELSE LET b == s[i]
             Has(k) == i + k <= Len(s)
         IN  IF b < 128 THEN Utf8From(s, i + 1)
             ELSE IF b \in 194..223
                  THEN Has(1) /\ IsCont(s[i + 1]) /\ Utf8From(s, i + 2)
             ELSE IF b \in 224..239
                  THEN /\ Has(2)
                       /\ s[i + 1] \in (IF b = 224 THEN 160..191
                                        ELSE IF b = 237 THEN 128..159
                                        ELSE 128..191)
                       /\ IsCont(s[i + 2])
                       /\ Utf8From(s, i + 3)
             ELSE IF b \in 240..244
                  THEN /\ Has(3)
                       /\ s[i + 1] \in (IF b = 240 THEN 144..191
                                        ELSE IF b = 244 THEN 128..143
                                        ELSE 128..191)
                       /\ IsCont(s[i + 2])
                       /\ IsCont(s[i + 3])
                       /\ Utf8From(s, i + 4)
             ELSE FALSE

IsUtf8(s) == Utf8From(s, 1)

(***************************************************************************)
(* The wire structs.                                                       *)
(***************************************************************************)
\* RkCommand, 16 bytes: code, subcode, address, _r6, size, _r9.._r11, _r12
CommandBytes(code) ==
    <<code, 0>> \o Le32(0) \o <<0>> \o Le16(0) \o <<0, 0, 0>> \o Le32(0)

\* variant: the direction flag is left at zero (host to device)
RequestBytesNoFlag ==
    USB_REQUEST_SIGNATURE \o Le32(InfoTag) \o Le32(InfoLength)
        \o <<0, 0, 6>> \o CommandBytes(CMD_CHIP_INFO)

\* Request, 31 bytes, as info builds it
RequestBytes ==
    USB_REQUEST_SIGNATURE \o Le32(InfoTag) \o Le32(InfoLength)
        \o <<FLAG_DIR_IN, 0, 6>> \o CommandBytes(CMD_CHIP_INFO)

\* Response::read_from_prefix
ParseResponse(buf) ==
    [signature |-> SubSeq(buf, 1, 4),
     tag       |-> FromLe32(SubSeq(buf, 5, 8)),
     residue   |-> FromLe32(SubSeq(buf, 9, 12)),
     status    |-> buf[13]]

(***************************************************************************)
(* The transfer wrappers.                                                  *)
(***************************************************************************)
\* usb_send: one bulk-OUT; the result is dropped
UsbSend(addr, bytes, outcome) ==
    [dir |-> "out", addr |-> addr, size |-> Len(bytes), status |-> outcome,
     received |-> <<>>, buf |-> bytes]

\* variant: the delivered bytes are copied before the status is looked at
ReadBufIgnoresStatus(size, outcome, dev) == dev \o Zeros(size - Len(dev))

\* usb_read_n's buffer: `size` zero bytes, the first bytes overwritten by
\* what the device delivered when the transfer succeeded
ReadBuf(size, outcome, dev) ==
    IF outcome = "ok" THEN dev \o Zeros(size - Len(dev)) ELSE Zeros(size)

\* usb_read_n: one bulk-IN; the result is dropped, the buffer returned
UsbReadN(addr, size, outcome, dev) ==
    [dir |-> "in", addr |-> addr, size |-> size, status |-> outcome,
     received |-> IF outcome = "ok" THEN dev ELSE <<>>,
     buf |-> ReadBuf(size, outcome, dev)]

\* variant: the region code travels in `value`, not in `index`
UsbOutIndexAsValue(bytes, r, outcome) ==
    [control_type |-> "Vendor", recipient |-> "Device", request |-> REQUEST,
     value |-> RegionIndex(r), index |-> 0, data |-> bytes,
     status |-> outcome]

\* usb_out: one vendor control-OUT to the device
UsbOut(bytes, r, outcome) ==
    [control_type |-> "Vendor", recipient |-> "Device", request |-> REQUEST,
     value |-> 0, index |-> RegionIndex(r), data |-> bytes,
     status |-> outcome]

\* variant: a timeout is not treated as a failure
PanicsOnErrorOnly(outcome) == outcome = "error"

\* usb_out panics unless the transfer completed with success in time
Panics(outcome) == outcome # "ok"

\* variant: the tag is not compared
VerdictNoTag(res) ==
    IF res.signature # USB_RESPONSE_SIGNATURE THEN "signature" ELSE "ok"

\* info's assertions on the parsed status-phase response
Verdict(res) ==
    IF res.signature # USB_RESPONSE_SIGNATURE THEN "signature"
    ELSE IF res.tag # InfoTag THEN "tag"
    ELSE "ok"

\* variant: the coming sleep is counted against the deadline
DeadlinePassedEarly(t) == t + CLAIM_INTERFACE_PERIOD > CLAIM_INTERFACE_TIMEOUT

\* claim_interface's loop condition, negated: `t` microseconds after `now`
DeadlinePassed(t) == t > CLAIM_INTERFACE_TIMEOUT

(***************************************************************************)
(* The process.                                                            *)
(***************************************************************************)
\* connect has found and opened the device and enters claim_interface
Init ==
    /\ pc = "claim"
    /\ failure = "none"
    /\ clock = 0
    /\ attempts = 0
    /\ claimed = FALSE
    /\ e_in_addr = 0
    /\ e_out_addr = 0
    /\ bulkLog = <<>>
    /\ reported = <<>>
    /\ data = <<>>
    /\ region = "none"
    /\ ext_data = <<>>
    /\ c = 0
    /\ ctrlLog = <<>>

\* claim_interface: one pass of the loop while the deadline has not passed
ClaimAttempt ==
    /\ pc = "claim"
    /\ ~DeadlinePassed(clock)
    /\ attempts' = attempts + 1
    /\ \/ /\ claimed' = TRUE
          /\ clock' = clock
          /\ pc' = "claimed"
       \/ /\ \E d \in Delays : clock' = clock + CLAIM_INTERFACE_PERIOD + d
          /\ claimed' = claimed
          /\ pc' = "claim"
    /\ UNCHANGED <<failure, addrVars, infoVars, runVars>>

\* claim_interface: the deadline has passed; connect unwraps the Err
ClaimGiveUp ==
    /\ pc = "claim"
    /\ DeadlinePassed(clock)
    /\ pc' = "panic"
    /\ failure' = "claim"
    /\ UNCHANGED <<claimVars, addrVars, infoVars, runVars>>

\* connect, after the claim: the link speed and the endpoint addresses
Connect ==
    /\ pc = "claimed"
    /\ \E speed \in Speeds :
          IF speed = "Unknown"
          THEN /\ pc' = "panic"
               /\ failure' = "speed"
               /\ UNCHANGED <<claimVars, addrVars>>
          ELSE /\ \E o \in OutAddrs, i \in InAddrs :
                     /\ e_out_addr' = o
                     /\ e_in_addr' = i
               /\ clock' = 0
               /\ attempts' = 0
               /\ pc' = "connected"
               /\ UNCHANGED <<failure, claimed>>
    /\ UNCHANGED <<infoVars, runVars>>

\* main: Command::Info
InvokeInfo ==
    /\ pc = "connected"
    /\ pc' = "info_send"
    /\ UNCHANGED <<failure, claimVars, addrVars, infoVars, runVars>>

\* info: the command phase
InfoSend ==
    /\ pc = "info_send"
    /\ \E outcome \in Outcomes :
          bulkLog' = Append(bulkLog, UsbSend(e_out_addr, RequestBytes, outcome))
    /\ pc' = "info_data"
    /\ UNCHANGED <<failure, claimVars, addrVars, reported, runVars>>

\* variant: the chip identifier is not written to the log in this phase
InfoDataSilent ==
    /\ pc = "info_data"
    /\ \E outcome \in Outcomes, dev \in DataReplies :
          LET t == UsbReadN(e_in_addr, InfoLength, outcome, dev)
              d == Reverse(SubSeq(t.buf, 1, 4))
          IN  /\ bulkLog' = Append(bulkLog, t)
              /\ IF IsUtf8(d)
                 THEN pc' = "info_status" /\ UNCHANGED failure
                 ELSE pc' = "panic" /\ failure' = "utf8"
    /\ UNCHANGED <<claimVars, addrVars, reported, runVars>>

\* info: the data phase and the chip identifier
InfoData ==
    /\ pc = "info_data"
    /\ \E outcome \in Outcomes, dev \in DataReplies :
          LET t == UsbReadN(e_in_addr, InfoLength, outcome, dev)
              d == Reverse(SubSeq(t.buf, 1, 4))
          IN  /\ bulkLog' = Append(bulkLog, t)
              /\ IF IsUtf8(d)
                 THEN /\ reported' = Append(reported, d)
                      /\ pc' = "info_status"
                      /\ UNCHANGED failure
                 ELSE /\ pc' = "panic"
                      /\ failure' = "utf8"
                      /\ UNCHANGED reported
    /\ UNCHANGED <<claimVars, addrVars, runVars>>

\* info: the status phase and the two assertions
InfoStatus ==
    /\ pc = "info_status"
    /\ \E outcome \in Outcomes, dev \in StatusReplies :
          LET t == UsbReadN(e_in_addr, RESPONSE_SIZE, outcome, dev)
              res == ParseResponse(t.buf)
          IN  /\ bulkLog' = Append(bulkLog, t)
              /\ IF Verdict(res) = "ok"
                 THEN pc' = "info_done" /\ UNCHANGED failure
                 ELSE pc' = "panic" /\ failure' = Verdict(res)
    /\ UNCHANGED <<claimVars, addrVars, reported, runVars>>

\* run: the frame is built
InvokeRun ==
    /\ pc = "connected"
    /\ \E p \in Payloads, r \in Regions :
          /\ data' = p
          /\ region' = r
          /\ ext_data' = Frame(p)
    /\ c' = 0
    /\ pc' = "run_chunks"
    /\ UNCHANGED <<failure, claimVars, addrVars, infoVars, ctrlLog>>

\* variant: every pass sends the chunk at offset 0
RunChunkFirstOnly ==
    /\ pc = "run_chunks"
    /\ c < full_chunks
    /\ \E outcome \in Outcomes :
          LET chunk == SubSeq(ext_data, 1, CHUNK_SIZE)
          IN  /\ ctrlLog' = Append(ctrlLog, UsbOut(chunk, region, outcome))
              /\ IF ~Panics(outcome)
                 THEN c' = c + 1 /\ UNCHANGED <<pc, failure>>
                 ELSE pc' = "panic" /\ failure' = "usb_out" /\ UNCHANGED c
    /\ UNCHANGED <<claimVars, addrVars, infoVars, data, region, ext_data>>

\* run: one pass of the loop over the full chunks
RunChunk ==
    /\ pc = "run_chunks"
    /\ c < full_chunks
    /\ \E outcome \in Outcomes :
          LET o == c * CHUNK_SIZE
              chunk == SubSeq(ext_data, o + 1, o + CHUNK_SIZE)
          IN  /\ ctrlLog' = Append(ctrlLog, UsbOut(chunk, region, outcome))
              /\ IF ~Panics(outcome)
                 THEN c' = c + 1 /\ UNCHANGED <<pc, failure>>
                 ELSE pc' = "panic" /\ failure' = "usb_out" /\ UNCHANGED c
    /\ UNCHANGED <<claimVars, addrVars, infoVars, data, region, ext_data>>

\* run: after the loop, the remaining bytes or the extra zero byte
RunTail ==
    /\ pc = "run_chunks"
    /\ c = full_chunks
    /\ \E outcome \in Outcomes :
          LET last == TailData(ext_data)
          IN  /\ ctrlLog' = Append(ctrlLog, UsbOut(last, region, outcome))
              /\ IF ~Panics(outcome)
                 THEN pc' = "run_done" /\ UNCHANGED failure
                 ELSE pc' = "panic" /\ failure' = "usb_out"
    /\ UNCHANGED <<claimVars, addrVars, infoVars, data, region, ext_data, c>>

Next ==
    \/ ClaimAttempt
    \/ ClaimGiveUp
    \/ Connect
    \/ InvokeInfo
    \/ InfoSend
    \/ InfoData
    \/ InfoStatus
    \/ InvokeRun
    \/ RunChunk
    \/ RunTail

Spec == Init /\ [][Next]_vars

(***************************************************************************)
(* Properties.                                                             *)
(***************************************************************************)
\* run has been called and has built its frame
RunStarted == region \in Regions
\* run has returned
RunDone == pc = "run_done"
\* the sizes of the control transfers submitted so far
CtrlSizes == [k \in 1..Len(ctrlLog) |-> Len(ctrlLog[k].data)]

\* C1: a run that completes has built a frame of length L (payload, one pad
\* byte when the payload length is 4095 mod 4096, two CRC bytes) and has
\* submitted exactly floor(L/4096) transfers of 4096 bytes followed by exactly
\* one more: the last L mod 4096 bytes of the frame when L mod 4096 > 0, else
\* the single byte 0x00.  A frame of 4096 bytes gives sizes <<4096, 1>> ending
\* in 0x00; a frame of 4097 bytes gives sizes <<4096, 1>> ending in the last
\* frame byte.
C1_ChunkCount ==
    RunDone =>
        LET L == Len(ext_data)
            n == L \div 4096
        IN  /\ L = Len(data) + 2 + (IF Len(data) % 4096 = 4095 THEN 1 ELSE 0)
            /\ Len(ctrlLog) = n + 1
            /\ \A k \in 1..n : Len(ctrlLog[k].data) = 4096
            /\ IF L % 4096 > 0
               THEN ctrlLog[n + 1].data = SubSeq(ext_data, n * 4096 + 1, L)
               ELSE ctrlLog[n + 1].data = <<0>>
            /\ L = 4096 => CtrlSizes = <<4096, 1>> /\ ctrlLog[2].data = <<0>>
            /\ L = 4097 =>
                  CtrlSizes = <<4096, 1>> /\ ctrlLog[2].data = <<ext_data[L]>>

\* C1 witness: a completed run whose frame is exactly one chunk long
C1_Witness ==
    /\ RunDone
    /\ Len(ext_data) = 4096
    /\ CtrlSizes = <<4096, 1>>
    /\ ctrlLog[2].data = <<0>>

\* C2 as stated: the frame length is never congruent to 4095 modulo 4096
C2_Original == RunStarted => Len(ext_data) % 4096 # 4095

\* C2 amended: the frame length is never congruent to 1 modulo 4096 (the
\* length before the CRC is never congruent to 4095)
C2_FrameLength ==
    RunStarted =>
        /\ Len(ext_data) % 4096 # 1
        /\ (Len(ext_data) - 2) % 4096 # 4095

\* C2 witness: a payload of length 4095 mod 4096 was padded
C2_Witness ==
    /\ RunStarted
    /\ Len(data) % 4096 = 4095
    /\ Len(ext_data) = Len(data) + 3

\* C3, the order: every transfer but the last one submitted completed
\* with success, transfer k of the full chunks carries the frame bytes at offset
\* (k-1)*4096, and a last transfer that timed out or failed has aborted the run
C3_Order ==
    /\ \A k \in 1..Len(ctrlLog) :
          /\ k < Len(ctrlLog) => ctrlLog[k].status = "ok"
          /\ k <= Len(ext_data) \div 4096 =>
                ctrlLog[k].data = SubSeq(ext_data, (k - 1) * 4096 + 1, k * 4096)
    /\ Len(ctrlLog) > 0 /\ ctrlLog[Len(ctrlLog)].status # "ok" =>
          pc = "panic" /\ failure = "usb_out"
    /\ pc = "run_chunks" => Len(ctrlLog) = c

\* C3, the abort: an aborted run submits nothing more
C3_Abort == pc = "panic" => ctrlLog' = ctrlLog /\ pc' = "panic"

\* C3: chunks are submitted in ascending offset order, each only after the
\* one before it completed with success; a timeout or a failed completion
\* aborts the run and no control transfer is submitted after it
C3_Serial == [](C3_Order) /\ [][C3_Abort]_vars

\* C3 witness: a run aborted by a timeout of its second transfer
C3_Witness ==
    /\ pc = "panic"
    /\ failure = "usb_out"
    /\ Len(ctrlLog) = 2
    /\ ctrlLog[1].status = "ok"
    /\ ctrlLog[2].status = "timeout"
    /\ Len(ext_data) > 2 * 4096

\* C4 as stated: the dialogue completes only with a status byte of zero
C4_StatusChecked ==
    pc = "info_done" => bulkLog[Len(bulkLog)].buf[13] = 0

\* C5: the dialogue completes only if the status-phase response carries the
\* signature "USBS" and the tag 0x13372342; a response with another signature
\* or another tag makes it fail
C5_Framing ==
    /\ pc = "info_done" =>
          LET r == bulkLog[Len(bulkLog)]
          IN  /\ Len(bulkLog) = 3
              /\ r.dir = "in" /\ r.size = 13 /\ r.status = "ok"
              /\ Len(r.received) >= 8
              /\ SubSeq(r.received, 1, 4) = <<85, 83, 66, 83>>
              /\ SubSeq(r.received, 5, 8) = <<66, 35, 55, 19>>
    /\ Len(bulkLog) = 3 =>
          LET r == bulkLog[3].buf
          IN  \/ SubSeq(r, 1, 4) = <<85, 83, 66, 83>> /\
                 SubSeq(r, 5, 8) = <<66, 35, 55, 19>>
              \/ pc = "panic" /\ failure \in {"signature", "tag"}

\* C5 witness: a response with the right signature and another tag, rejected
C5_Witness ==
    /\ pc = "panic"
    /\ failure = "tag"
    /\ Len(bulkLog) = 3
    /\ bulkLog[3].received = ResponseBytes(<<85, 83, 66, 83>>, 1109604115, 0, 0)

\* C6 as stated: with an OUT endpoint other than 0x01 the info command issues
\* no bulk transfer and fails
C6_ModeGate == e_out_addr = 2 => bulkLog = <<>> /\ pc # "info_done"

\* C7 as stated: a bulk transfer that fails or times out is the last one of
\* the dialogue, and the dialogue has failed
C7_Terminal ==
    \A k \in 1..Len(bulkLog) :
        bulkLog[k].status # "ok" => k = Len(bulkLog) /\ pc = "panic"

\* C8: every control transfer of a run is a vendor control-OUT to the device
\* with request 0x0c, value 0 and index 0x471 for Sram, 0x472 for Dram
C8_Setup ==
    \A k \in 1..Len(ctrlLog) :
        /\ ctrlLog[k].control_type = "Vendor"
        /\ ctrlLog[k].recipient = "Device"
        /\ ctrlLog[k].request = 12
        /\ ctrlLog[k].value = 0
        /\ region = "Sram" => ctrlLog[k].index = 1137
        /\ region = "Dram" => ctrlLog[k].index = 1138
        /\ ctrlLog[k].index = ctrlLog[1].index

\* C8 witness: a completed Dram run of full chunks and the extra zero byte
C8_Witness ==
    /\ RunDone
    /\ region = "Dram"
    /\ Len(ctrlLog) = 3
    /\ ctrlLog[3].data = <<0>>
    /\ ctrlLog[3].index = 1138

\* C9: the frame is the (optionally padded) payload followed by its
\* CRC-16/IBM-3740, high byte first; "123456789" gives 11 bytes ending in
\* 0x29, 0xB1.  Stated of the frame as run has just built it.
C9_Crc ==
    RunStarted /\ ctrlLog = <<>> =>
        LET L == Len(ext_data)
            pre == SubSeq(ext_data, 1, L - 2)
        IN  /\ L >= 2
            /\ pre = (IF Len(data) % 4096 = 4095 THEN data \o <<0>> ELSE data)
            /\ ext_data[L - 1] = Checksum(pre) \div 256
            /\ ext_data[L] = Checksum(pre) % 256
            /\ data = Digits =>
                  L = 11 /\ ext_data[10] = 41 /\ ext_data[11] = 177

\* C9 witness: the frame of "123456789"
C9_Witness ==
    /\ RunStarted
    /\ data = <<49, 50, 51, 52, 53, 54, 55, 56, 57>>
    /\ SubSeq(ext_data, 10, 11) = <<41, 177>>

\* C10: the claim loop stops at the first success; while nothing succeeded
\* and the deadline of one second has not passed it goes on trying; it fails
\* only after the deadline, and each failed attempt costs at least the
\* sleep period, so it ends
C10_ClaimLoop ==
    /\ claimed => pc # "claim"
    /\ pc = "claimed" => claimed /\ attempts >= 1 /\ clock <= 1000000
    /\ pc = "claim" => ~claimed /\ attempts * 200 <= clock
    /\ pc = "claim" /\ clock <= 1000000 =>
          ENABLED ClaimAttempt /\ ~ENABLED ClaimGiveUp
    /\ failure = "claim" => ~claimed /\ clock > 1000000 /\ attempts >= 1

\* C10 witness: three failed attempts, then a success within the second
C10_Witness ==
    /\ pc = "claimed"
    /\ attempts = 4
    /\ clock <= 1000000

\* C10 witness of the other end: every attempt failed
C10_WitnessBusy == failure = "claim" /\ attempts = 5001

\* C11: the bytes before the CRC are the payload followed by exactly one zero
\* byte when the payload length is 4095 modulo 4096, and the payload
\* unchanged otherwise; their length is never 4095 modulo 4096
C11_PadRule ==
    RunStarted =>
        LET pre == SubSeq(ext_data, 1, Len(ext_data) - 2)
        IN  /\ Len(data) % 4096 = 4095 =>
                  /\ Len(pre) = Len(data) + 1
                  /\ SubSeq(pre, 1, Len(data)) = data
                  /\ pre[Len(pre)] = 0
            /\ Len(data) % 4096 # 4095 => pre = data
            /\ Len(pre) % 4096 # 4095

\* C11 witness: a payload of 4095 bytes, with the pad byte at offset 4095
C11_Witness ==
    /\ RunStarted
    /\ Len(data) = 4095
    /\ Len(ext_data) = 4098
    /\ ext_data[4096] = 0
    /\ data[4095] # 0

\* the end, as an offset into the stream, of control transfer k (every
\* transfer before it carried a full chunk)
CtrlEnd(k) == (k - 1) * 4096 + Len(ctrlLog[k].data)

\* C12: no control transfer ends between the two CRC bytes, and a completed
\* run has carried both of them in one transfer
C12_CrcTogether ==
    RunStarted =>
        LET L == Len(ext_data)
        IN  /\ \A k \in 1..Len(ctrlLog) : CtrlEnd(k) # L - 1
            /\ RunDone =>
                  \E k \in 1..Len(ctrlLog) :
                      LET start == (k - 1) * 4096
                          d == ctrlLog[k].data
                      IN  /\ start < L - 1
                          /\ L <= CtrlEnd(k)
                          /\ d[L - 1 - start] = ext_data[L - 1]
                          /\ d[L - start] = ext_data[L]

\* C12 witness: a padded payload, whose CRC travels alone in the last
\* transfer
C12_Witness ==
    /\ RunDone
    /\ Len(data) % 4096 = 4095
    /\ ctrlLog[Len(ctrlLog)].data =
          SubSeq(ext_data, Len(ext_data) - 1, Len(ext_data))

\* C13 as stated: a bulk-IN read that received fewer bytes than requested
\* returns a buffer of exactly the bytes received
C13_Truncated ==
    \A k \in 1..Len(bulkLog) :
        LET t == bulkLog[k]
        IN  t.dir = "in" /\ t.status = "ok" /\ Len(t.received) < t.size =>
               Len(t.buf) = Len(t.received)

\* C13 amended: the buffer a bulk-IN read returns always has the requested
\* size: the bytes received followed by zero bytes, and zero bytes only when
\* the transfer failed or timed out
C13_ZeroFilled ==
    \A k \in 1..Len(bulkLog) :
        LET t == bulkLog[k]
            n == Len(t.received)
        IN  t.dir = "in" =>
               /\ Len(t.buf) = t.size
               /\ n <= t.size
               /\ SubSeq(t.buf, 1, n) = t.received
               /\ \A i \in (n + 1)..t.size : t.buf[i] = 0
               /\ t.status # "ok" => \A i \in 1..t.size : t.buf[i] = 0

\* C13 witness: a data phase that delivered two of the sixteen bytes
C13_Witness ==
    /\ Len(bulkLog) >= 2
    /\ bulkLog[2].status = "ok"
    /\ bulkLog[2].received = <<54, 54>>
    /\ bulkLog[2].buf = <<54, 54, 0, 0, 0, 0, 0, 0, 0, 0, 0, 0, 0, 0, 0, 0>>

\* C14: a dialogue that completes has issued exactly three bulk transfers,
\* one after the other: the 31-byte request on the OUT endpoint (signature
\* "USBC", tag 0x13372342, length 0x10, flag 0x80, lun 0, command length 6,
\* opcode 0x1b), a 16-byte read and a 13-byte read on the IN endpoint
C14_ThreeTransfers ==
    /\ pc = "info_send" => Len(bulkLog) = 0
    /\ pc = "info_data" => Len(bulkLog) = 1
    /\ pc = "info_status" => Len(bulkLog) = 2
    /\ pc = "info_done" =>
          /\ Len(bulkLog) = 3
          /\ bulkLog[1].dir = "out"
          /\ bulkLog[1].addr = e_out_addr
          /\ bulkLog[1].size = 31
          /\ bulkLog[1].buf =
                <<85, 83, 66, 67, 66, 35, 55, 19, 16, 0, 0, 0, 128, 0, 6,
                  27, 0, 0, 0, 0, 0, 0, 0, 0, 0, 0, 0, 0, 0, 0, 0>>
          /\ bulkLog[2].dir = "in"
          /\ bulkLog[2].addr = e_in_addr
          /\ bulkLog[2].size = 16
          /\ bulkLog[3].dir = "in"
          /\ bulkLog[3].addr = e_in_addr
          /\ bulkLog[3].size = 13

\* C14 witness: the device answers 6633.. and a good status; 3366 is reported
C14_Witness ==
    /\ pc = "info_done"
    /\ \A k \in 1..3 : bulkLog[k].status = "ok"
    /\ bulkLog[2].received = ChipData
    /\ bulkLog[3].received = ResponseBytes(<<85, 83, 66, 83>>, InfoTag, 0, 0)
    /\ reported = << <<51, 51, 54, 54>> >>

\* C15 as stated: the frame of the empty payload is the two bytes 0x00 0x00
C15_ZeroCrc == RunStarted /\ data = <<>> => ext_data = <<0, 0>>

\* C15 amended: the frame of the empty payload is the two bytes 0xFF 0xFF
\* (the CRC-16/IBM-3740 of no bytes is its initial value), and a completed
\* run has sent it as one control transfer of two bytes
C15_EmptyFrame ==
    RunStarted /\ data = <<>> =>
        /\ ext_data = <<255, 255>>
        /\ Len(ctrlLog) <= 1
        /\ \A k \in 1..Len(ctrlLog) : ctrlLog[k].data = <<255, 255>>
        /\ RunDone => Len(ctrlLog) = 1

\* C15 witness: a completed run of the empty payload
C15_Witness ==
    /\ RunDone
    /\ data = <<>>
    /\ Len(ctrlLog) = 1
    /\ ctrlLog[1].status = "ok"
    /\ Len(ctrlLog[1].data) = 2

\* C16: a completed run has made floor(L/4096) + 1 control transfers, all
\* but the last of 4096 bytes, the last of 1 to 4095 bytes
C16_ShortLast ==
    RunDone =>
        LET n == Len(ctrlLog)
        IN  /\ n = Len(ext_data) \div 4096 + 1
            /\ n >= 1
            /\ \A k \in 1..(n - 1) : Len(ctrlLog[k].data) = 4096
            /\ Len(ctrlLog[n].data) >= 1
            /\ Len(ctrlLog[n].data) <= 4095

\* C16 witness: a completed run whose last transfer is as long as it can be
C16_Witness ==
    /\ RunDone
    /\ Len(ctrlLog) = 2
    /\ Len(ctrlLog[2].data) = 4095

\* the data of control transfers 1..k, one after the other
RECURSIVE CtrlStream(_)
CtrlStream(k) == IF k = 0 THEN <<>> ELSE CtrlStream(k - 1) \o ctrlLog[k].data

\* C17: the transfers of a completed run, in submission order, carry the
\* frame, followed by one zero byte exactly when the frame is a whole number
\* of chunks; the stream starts with the payload as the caller gave it
C17_Stream ==
    RunDone =>
        LET stream == CtrlStream(Len(ctrlLog))
            L == Len(ext_data)
        IN  /\ Len(stream) = L + (IF L % 4096 = 0 THEN 1 ELSE 0)
            /\ SubSeq(stream, 1, L) = ext_data
            /\ L % 4096 = 0 => stream[L + 1] = 0
            /\ SubSeq(stream, 1, Len(data)) = data

\* C17 witness: a completed Sram run of two full chunks and a remainder
C17_Witness ==
    /\ RunDone
    /\ region = "Sram"
    /\ Len(ctrlLog) = 3
    /\ Len(ext_data) % 4096 > 2
    /\ ctrlLog[2].data # ctrlLog[1].data

\* C18: info has written the chip identifier (the first four bytes of the
\* data phase, reversed) to the log before it submits the status-phase read,
\* so an invocation that ends in a signature or tag failure has reported it
C18_ReportedFirst ==
    /\ pc = "info_status" =>
          /\ Len(bulkLog) = 2
          /\ reported = << Reverse(SubSeq(bulkLog[2].buf, 1, 4)) >>
    /\ failure \in {"signature", "tag"} =>
          /\ Len(bulkLog) = 3
          /\ reported = << Reverse(SubSeq(bulkLog[2].buf, 1, 4)) >>

\* C18 witness: 3366 was reported and the signature then found wrong
C18_Witness ==
    /\ pc = "panic"
    /\ failure = "signature"
    /\ reported = << <<51, 51, 54, 54>> >>
    /\ bulkLog[3].status = "ok"

=============================================================================
